---- MODULE Spec2Model ----
(***************************************************************************)
(* Model of the vra_guest Ansible module                                   *)
(* (lib/ansible/modules/cloud/vmware/vra_guest.py): the VRAHelper class    *)
(* and the run_module workflow.  The vRA server is the environment: every  *)
(* REST response is chosen nondeterministically from a small set.          *)
(***************************************************************************)
EXTENDS Integers, Sequences, FiniteSets, TLC

VARIABLES
    check_mode,         \* module.check_mode
    wait_timeout,       \* module.params['wait_timeout']
    extra_disks,        \* module.params['extra_disks']
    headers,            \* VRAHelper.headers: TRUE once "authorization" is set
    ip,                 \* VRAHelper.ip
    request_id,         \* VRAHelper.request_id
    destroy_id,         \* VRAHelper.destroy_id
    catalog_id,         \* VRAHelper.catalog_id
    catalog_response,   \* get_catalog_id: response, until the method is left
    template_json,      \* VRAHelper.template_json
    state,              \* VRAHelper.state
    build_status,       \* VRAHelper.build_status
    build_explanation,  \* VRAHelper.build_explanation
    vms,                \* get_vm: the VMs of the last listing named hostname
    timer,              \* run_module: timer
    result,             \* run_module: result
    pc,                 \* position in run_module
    exit_kind,          \* "running", "exit_json", "fail_json" or "traceback"
    msg,                \* the msg handed to fail_json
    calls               \* the REST calls issued so far, in order

vars == <<check_mode, wait_timeout, extra_disks, headers, ip, request_id,
          destroy_id, catalog_id, catalog_response, template_json, state, build_status,
          build_explanation, vms, timer, result, pc, exit_kind, msg, calls>>

params_vars == <<check_mode, wait_timeout, extra_disks>>

-----------------------------------------------------------------------------
(* Bounds of the model *)

MaxTimeout == 16
MaxDisks == 2
MaxTemplateDisks == 2
NumVMs == 2
MaxCatalogItems == 2

-----------------------------------------------------------------------------
(* Program constants and values *)

\* time.sleep(15); timer += 15
PollInterval == 15

\* Python None, an attribute never assigned, and the empty string ''.
NoneV == <<"None", 0>>
Unset == <<"unset", 0>>
EmptyStr == <<"", 0>>

\* The module parameters that are the same in every run of the model.
params ==
    [ blueprint_instance_id |-> "vSphere__vCenter__Machine_1",
      blueprint_name |-> "Linux",
      cpu |-> 2,
      hostname |-> "Test-VM",
      memory |-> 4096,
      network_adapter |-> "network-adapter-name" ]

\* wait_timeout values: each multiple of the poll interval and its successor.
TimeoutValues == {t \in 0..MaxTimeout : t % PollInterval \in {0, 1}}

\* extra_disks entries, and the lists of them.
DiskChoices ==
    { [size_gb |-> 60, mount_point |-> "/mnt1"],
      [size_gb |-> 80, mount_point |-> "/mnt2"] }

DiskLists == UNION {[1..n -> DiskChoices] : n \in 0..MaxDisks}

\* The server's VMs named hostname; VM v was built by request <<"req", v>>,
\* its infrastructure resource is <<"res", v>> and its address <<"ip", v>>.
VMs == 1..NumVMs
RequestIdOf(v) == <<"req", v>>
DestroyIdOf(v) == <<"res", v>>
IpOf(v) == <<"ip", v>>

-----------------------------------------------------------------------------
(* The request template and customize_template *)

\* A disk descriptor of a fetched template: the j-th disk (j = 0 is Disk0).
FetchedDisk(base, j) ==
    [ capacity |-> 40,
      label |-> "Hard disk " \o ToString(j + 1),
      volumeId |-> j,
      id |-> base + j,
      userCreated |-> "false",
      is_clone |-> "true",
      initial_location |-> "" ]

\* The per-resource field mapping of a fetched template with m disks; the
\* blueprint whose base disk id is 1 holds small defaults, the other one the
\* values of an earlier request.
FetchedMeta(m, base) ==
    [ cpu |-> IF base = 1 THEN 1 ELSE 4,
      memory |-> IF base = 1 THEN 1024 ELSE 8192,
      Hostname |-> IF base = 1 THEN "" ELSE "Old-VM",
      Network0Name |-> IF base = 1 THEN "default-network" ELSE "old-network",
      description |-> "from blueprint",
      disks |-> [j \in 1..m |-> FetchedDisk(base, j - 1)] ]

InstanceIdSets ==
    { {params.blueprint_instance_id, "vSphere__vCenter__Machine_2"},
      {"vSphere__vCenter__Machine_2"} }

BaseDiskIds == {1, 1450}

\* The documents the template endpoint may answer with.
TemplateDocs ==
    { [data |-> [k \in ks |-> [data |-> FetchedMeta(m, base)]]] :
        ks \in InstanceIdSets, m \in 0..MaxTemplateDisks, base \in BaseDiskIds }

\* "Hard disk %s" % (i + 2)
DiskLabelOffByOne(i) == "Hard disk " \o ToString(i + 1)
DiskLabel(i) == "Hard disk " \o ToString(i + 2)

\* One pass of the for loop body: the descriptor appended for extra disk i
\* (0-based), with disk_id already incremented.
NewDisk(disk_meta_orig, i, disk, disk_id) ==
    [ disk_meta_orig EXCEPT
        !.capacity = disk.size_gb,
        !.label = DiskLabel(i),
        !.volumeId = i + 1,
        !.id = disk_id,
        !.userCreated = "true",
        !.is_clone = "false",
        !.initial_location = disk.mount_point ]

\* The for loop over enumerate(self.extra_disks), from index i on.
RECURSIVE AppendDisks(_, _, _, _, _)
AppendDisks(disks, disk_meta_orig, disk_id, i, extra) ==
    IF i >= Len(extra) THEN disks
    ELSE AppendDisks(
            Append(disks, NewDisk(disk_meta_orig, i, extra[i + 1], disk_id + 1)),
            disk_meta_orig, disk_id + 1, i + 1, extra)

\* customize_template raises (KeyError, IndexError, ValueError): the body is
\* not JSON, the blueprint instance id is missing, or disks[0] does not exist.
CustomizeRaises(response, extra) ==
    \/ response.kind # "json"
    \/ params.blueprint_instance_id \notin DOMAIN response.doc.data
    \/ /\ Len(extra) >= 1
       /\ Len(response.doc.data[params.blueprint_instance_id].data.disks) = 0

\* The metadata after the four overwrites and the disk loop.
CustomizedMetaKeepsNetwork(metadata, extra) ==
    LET m1 == [ metadata EXCEPT
                  !.cpu = params.cpu,
                  !.memory = params.memory,
                  !.Hostname = params.hostname ]
    IN  IF Len(extra) >= 1
        THEN [ m1 EXCEPT !.disks =
                 AppendDisks(m1.disks, m1.disks[1], m1.disks[1].id, 0, extra) ]
        ELSE m1

CustomizedMeta(metadata, extra) ==
    LET m1 == [ metadata EXCEPT
                  !.cpu = params.cpu,
                  !.memory = params.memory,
                  !.Hostname = params.hostname,
                  !.Network0Name = params.network_adapter ]
    IN  IF Len(extra) >= 1
        THEN [ m1 EXCEPT !.disks =
                 AppendDisks(m1.disks, m1.disks[1], m1.disks[1].id, 0, extra) ]
        ELSE m1

\* The template document customize_template leaves in self.template_json.
customize_template(doc, extra) ==
    [ doc EXCEPT !.data[params.blueprint_instance_id].data =
        CustomizedMeta(doc.data[params.blueprint_instance_id].data, extra) ]

\* json.dumps: a number is written as its decimal text, a string as a
\* quoted string, a dict and a list member by member.
JsonNumber(n) == [json |-> "number", text |-> ToString(n)]
JsonString(str) == [json |-> "string", text |-> str]

DumpsDisk(d) ==
    [ capacity |-> JsonNumber(d.capacity),
      label |-> JsonString(d.label),
      volumeId |-> JsonNumber(d.volumeId),
      id |-> JsonNumber(d.id),
      userCreated |-> JsonString(d.userCreated),
      is_clone |-> JsonString(d.is_clone),
      initial_location |-> JsonString(d.initial_location) ]

DumpsMeta(metadata) ==
    [ cpu |-> JsonNumber(metadata.cpu),
      memory |-> JsonNumber(metadata.memory),
      Hostname |-> JsonString(metadata.Hostname),
      Network0Name |-> JsonString(metadata.Network0Name),
      description |-> JsonString(metadata.description),
      disks |-> [j \in DOMAIN metadata.disks |-> DumpsDisk(metadata.disks[j])] ]

json_dumps(doc) ==
    [data |-> [k \in DOMAIN doc.data |-> [data |-> DumpsMeta(doc.data[k].data)]]]

-----------------------------------------------------------------------------
(* The server's answers *)

\* GET .../resources/types/Infrastructure.Virtual/: the request raises, or
\* the listing holds these VMs named hostname.
ListingResponses ==
    {[kind |-> "error", matches |-> {}]}
        \cup {[kind |-> "content", matches |-> m] : m \in SUBSET VMs}

\* GET .../requests/{requestId}/resources: the request raises, no element is
\* bound to 'Infrastructure Service', or the element's ip_address entry is
\* missing, null or an address.
ResourceResponses ==
    { [kind |-> "error", ip_entry |-> "absent"],
      [kind |-> "no_infrastructure", ip_entry |-> "absent"],
      [kind |-> "resource", ip_entry |-> "absent"],
      [kind |-> "resource", ip_entry |-> "null"],
      [kind |-> "resource", ip_entry |-> "value"] }

\* GET .../entitledCatalogItems: the request raises, or a list of items.
CatalogItems ==
    { [name |-> n, id |-> i] :
        n \in {params.blueprint_name, "Windows"}, i \in {"cat-1", "cat-2"} }

\* No answer is held: the method has not run, or it has been left.
NoResponse == [kind |-> "unset", content |-> <<>>]

CatalogResponses ==
    {[kind |-> "error", content |-> <<>>]}
        \cup { [kind |-> "content", content |-> c] :
                 c \in UNION {[1..n -> CatalogItems] : n \in 0..MaxCatalogItems} }

\* GET .../requests/template: the request raises, the body is not a template
\* document, or it is one.
TemplateResponses ==
    { [kind |-> "error"], [kind |-> "garbage"] }
        \cup {[kind |-> "json", doc |-> d] : d \in TemplateDocs}

\* GET .../requests/{requestId}: the request raises, or stateName with
\* requestCompletion (None, or completionDetails); the server completes a
\* request only when it ends it.
CompletionDetails == "Request completed: see the machine allocation log."

BuildStatusResponses ==
    {[kind |-> "error", stateName |-> "", requestCompletion |-> NoneV]}
        \cup { [kind |-> "json", stateName |-> st, requestCompletion |-> NoneV] :
                 st \in {"SUBMITTED", "InProgress"} }
        \cup { [kind |-> "json", stateName |-> st, requestCompletion |-> c] :
                 st \in {"Successful", "Failed"},
                 c \in {NoneV, <<CompletionDetails, 0>>} }

\* GET .../resources/{destroyId}: the request raises, no MachineStatus entry,
\* or the machine status.
StateResponses == {"error", "absent", "On", "Off"}

-----------------------------------------------------------------------------
(* Helpers of the actions *)

\* One REST call of the log: the endpoint, the id in its URL, the kind of
\* answer the server gave and the part of the answer the helper reads.
Call(op, arg, got, detail) ==
    [op |-> op, arg |-> arg, got |-> got, detail |-> detail]

\* module.fail_json(msg=m): the process exits (SystemExit is no Exception,
\* so no handler of the helper catches it).
fail_json_returns(m) ==
    /\ exit_kind' = "fail_json"
    /\ msg' = m
    /\ pc' = pc

fail_json(m) ==
    /\ exit_kind' = "fail_json"
    /\ msg' = m
    /\ pc' = "exit"

\* module.exit_json(**result)
exit_json ==
    /\ exit_kind' = "exit_json"
    /\ msg' = msg
    /\ pc' = "exit"

\* get_catalog_id: the loop that fills catalog_dict, item by item.
RECURSIVE CatalogDictFirstWins(_, _, _)
CatalogDictFirstWins(content, n, dict) ==
    IF n > Len(content) THEN dict
    ELSE CatalogDictFirstWins(content, n + 1,
            [k \in DOMAIN dict \cup {content[n].name} |->
                IF k \in DOMAIN dict THEN dict[k] ELSE content[n].id])

RECURSIVE CatalogDict(_, _, _)
CatalogDict(content, n, dict) ==
    IF n > Len(content) THEN dict
    ELSE CatalogDict(content, n + 1,
            [k \in DOMAIN dict \cup {content[n].name} |->
                IF k = content[n].name THEN content[n].id ELSE dict[k]])

EmptyDict == [k \in {} |-> ""]

\* get_vm: len(vms) > 1
IsDuplicateOverTwo(matches) == Cardinality(matches) > 2
IsDuplicate(matches) == Cardinality(matches) > 1

\* run_module: vra_helper.ip == None, the test of both branches.
IpIsNoneInverted(an_ip) == an_ip # NoneV
IpIsNone(an_ip) == an_ip = NoneV

\* run_module: the if/elif chain of one pass of the poll loop.
PollDecisionLateTimeout(t, timeout_seconds, status) ==
    IF t > timeout_seconds THEN "timeout"
    ELSE IF status = "Failed" THEN "failed"
    ELSE IF status = "Successful" THEN "break"
    ELSE "sleep"

PollDecisionTimeoutAfterSleep(t, timeout_seconds, status) ==
    IF t - PollInterval >= timeout_seconds THEN "timeout"
    ELSE IF status = "Failed" THEN "failed"
    ELSE IF status = "Successful" THEN "break"
    ELSE "sleep"

PollDecisionIgnoresFailed(t, timeout_seconds, status) ==
    IF t >= timeout_seconds THEN "timeout"
    ELSE IF status = "Successful" THEN "break"
    ELSE "sleep"

PollDecision(t, timeout_seconds, status) ==
    IF t >= timeout_seconds THEN "timeout"
    ELSE IF status = "Failed" THEN "failed"
    ELSE IF status = "Successful" THEN "break"
    ELSE "sleep"

\* get_vm_build_status: build_explanation from requestCompletion.
Explanation(requestCompletion) ==
    IF requestCompletion = NoneV THEN "" ELSE requestCompletion[1]

MsgToken == "Failed to get bearer token"
MsgCatalog == "Failed to get catalog ID for blueprint " \o params.blueprint_name
MsgTemplate == "Failed to get template JSON for creating the VM"
MsgCreate == "Failed to create VM from template"
MsgDuplicate == "Duplicate VMs with hostname " \o params.hostname \o "."
MsgVmDetails == "Failed to get VM details for '" \o params.hostname \o "'"
MsgVmState == "Failed to get VM state information for '" \o params.hostname \o "'"
MsgBuildStatus == "Failed to get VM create status"
MsgTimeout(seconds) == "Failed to create VM in " \o ToString(seconds) \o " seconds"
MsgBuildFailed(explanation) == "Failed to create VM: " \o explanation

-----------------------------------------------------------------------------
(* The state machine *)

Init ==
    /\ check_mode \in BOOLEAN
    /\ wait_timeout \in TimeoutValues
    /\ extra_disks \in DiskLists
    /\ headers = FALSE
    /\ ip = NoneV
    /\ request_id = Unset
    /\ destroy_id = Unset
    /\ catalog_id = "unset"
    /\ catalog_response = NoResponse
    /\ template_json = [kind |-> "unset"]
    /\ state = "unset"
    /\ build_status = "unset"
    /\ build_explanation = "unset"
    /\ vms = {}
    /\ timer = 0
    /\ result = [ changed |-> FALSE, failed |-> FALSE, state |-> "",
                  destroy_id |-> EmptyStr, ip |-> EmptyStr, hostname |-> "" ]
    /\ pc = "get_auth"
    /\ exit_kind = "running"
    /\ msg = ""
    /\ calls = <<>>

\* VRAHelper.__init__ -> get_auth: POST /identity/api/tokens
GetAuth ==
    /\ pc = "get_auth"
    /\ \E response \in {"ok", "error"} :
         /\ calls' = Append(calls, Call("token", Unset, response, Unset))
         /\ IF response = "ok"
            THEN /\ headers' = TRUE
                 /\ pc' = "get_vm"
                 /\ UNCHANGED <<exit_kind, msg>>
            ELSE /\ fail_json(MsgToken)
                 /\ UNCHANGED headers
    /\ UNCHANGED <<params_vars, catalog_response, ip, request_id, destroy_id, catalog_id,
                   template_json, state, build_status, build_explanation,
                   vms, timer, result>>

\* VRAHelper.get_vm, called first (pc = "get_vm") and again after a
\* successful build (pc = "get_vm_again").
GetVm ==
    /\ pc \in {"get_vm", "get_vm_again"}
    /\ \E listing \in ListingResponses, resources \in ResourceResponses :
         LET listed == Append(calls, Call("list_vms", Unset, listing.kind,
                                          listing.matches))
             next_pc == IF pc = "get_vm" THEN "decide" ELSE "get_vm_state"
         IN
         IF listing.kind = "error"
         THEN /\ calls' = listed
              /\ vms' = {}
              /\ fail_json(MsgVmDetails)
              /\ UNCHANGED <<request_id, destroy_id, ip>>
         ELSE IF IsDuplicate(listing.matches)
         THEN /\ calls' = listed
              /\ vms' = listing.matches
              /\ fail_json(MsgDuplicate)
              /\ UNCHANGED <<request_id, destroy_id, ip>>
         ELSE IF Cardinality(listing.matches) = 1
         THEN LET v == CHOOSE x \in listing.matches : TRUE IN
              /\ vms' = listing.matches
              /\ request_id' = RequestIdOf(v)
              /\ calls' = Append(listed, Call("request_resources", RequestIdOf(v),
                                           resources.kind, resources.ip_entry))
              /\ IF resources.kind # "resource"
                 THEN /\ fail_json(MsgVmDetails)
                      /\ UNCHANGED <<destroy_id, ip>>
                 ELSE /\ destroy_id' = DestroyIdOf(v)
                      /\ IF resources.ip_entry = "absent"
                         THEN /\ fail_json(MsgVmDetails)
                              /\ UNCHANGED ip
                         ELSE /\ ip' = IF resources.ip_entry = "null"
                                       THEN NoneV ELSE IpOf(v)
                              /\ pc' = next_pc
                              /\ UNCHANGED <<exit_kind, msg>>
         ELSE /\ calls' = listed
              /\ vms' = listing.matches
              /\ pc' = next_pc
              /\ UNCHANGED <<request_id, destroy_id, ip, exit_kind, msg>>
    /\ UNCHANGED <<params_vars, catalog_response, headers, catalog_id, template_json, state,
                   build_status, build_explanation, timer, result>>

\* run_module: if module.check_mode: ... module.exit_json(**result)
CheckModeExitAlwaysChanged ==
    /\ pc = "decide"
    /\ check_mode
    /\ result' = [result EXCEPT !.changed = TRUE]
    /\ exit_json
    /\ UNCHANGED <<params_vars, catalog_response, headers, ip, request_id,
                   destroy_id, catalog_id, template_json, state, build_status,
                   build_explanation, vms, timer, calls>>

CheckModeExit ==
    /\ pc = "decide"
    /\ check_mode
    /\ result' = [result EXCEPT !.changed = IF IpIsNone(ip) THEN TRUE ELSE @]
    /\ exit_json
    /\ UNCHANGED <<params_vars, catalog_response, headers, ip, request_id, destroy_id,
                   catalog_id, template_json, state, build_status,
                   build_explanation, vms, timer, calls>>

\* run_module: if vra_helper.ip == None: result['changed'] = True, then
\* VRAHelper.get_catalog_id
GetCatalogId ==
    /\ pc = "decide"
    /\ ~check_mode
    /\ IpIsNone(ip)
    /\ result' = [result EXCEPT !.changed = TRUE]
    /\ \E response \in CatalogResponses :
         LET catalog_dict == CatalogDict(response.content, 1, EmptyDict) IN
         /\ calls' = Append(calls, Call("catalog", Unset, response.kind,
                                        Unset))
         /\ catalog_response' = response
         /\ IF response.kind = "content"
               /\ params.blueprint_name \in DOMAIN catalog_dict
            THEN /\ catalog_id' = catalog_dict[params.blueprint_name]
                 /\ pc' = "get_template_json"
                 /\ UNCHANGED <<exit_kind, msg>>
            ELSE /\ fail_json(MsgCatalog)
                 /\ UNCHANGED catalog_id
    /\ UNCHANGED <<params_vars, headers, ip, request_id, destroy_id,
                   template_json, state, build_status, build_explanation,
                   vms, timer>>

\* VRAHelper.get_template_json
GetTemplateJson ==
    /\ pc = "get_template_json"
    /\ \E response \in TemplateResponses :
         /\ catalog_response' = NoResponse
         /\ calls' = Append(calls, Call("template", <<catalog_id, 0>>,
                                        response.kind,
                                        IF response.kind = "json"
                                        THEN response.doc ELSE Unset))
         /\ IF response.kind = "error"
            THEN /\ fail_json(MsgTemplate)
                 /\ UNCHANGED template_json
            ELSE /\ template_json' = response
                 /\ pc' = "customize_template"
                 /\ UNCHANGED <<exit_kind, msg>>
    /\ UNCHANGED <<params_vars, headers, ip, request_id, destroy_id,
                   catalog_id, state, build_status, build_explanation, vms,
                   timer, result>>

\* VRAHelper.customize_template; an exception it raises is caught by nobody
\* and ends the process with a traceback.
CustomizeTemplate ==
    /\ pc = "customize_template"
    /\ IF CustomizeRaises(template_json, extra_disks)
       THEN /\ exit_kind' = "traceback"
            /\ pc' = "exit"
            /\ UNCHANGED <<template_json, msg>>
       ELSE /\ template_json' =
                 [ kind |-> "dict",
                   doc |-> customize_template(template_json.doc, extra_disks) ]
            /\ pc' = "create_vm_from_template"
            /\ UNCHANGED <<exit_kind, msg>>
    /\ UNCHANGED <<params_vars, catalog_response, headers, ip, request_id, destroy_id,
                   catalog_id, state, build_status, build_explanation, vms,
                   timer, result, calls>>

\* VRAHelper.create_vm_from_template, then timer = 0
CreateVmFromTemplate ==
    /\ pc = "create_vm_from_template"
    /\ \E response \in {0} \cup VMs :
         /\ calls' = Append(calls, Call("create", <<catalog_id, 0>>,
                                        IF response = 0 THEN "error" ELSE "ok",
                                        json_dumps(template_json.doc)))
         /\ IF response = 0
            THEN /\ fail_json(MsgCreate)
                 /\ UNCHANGED <<request_id, timer>>
            ELSE /\ request_id' = RequestIdOf(response)
                 /\ timer' = 0
                 /\ pc' = "poll"
                 /\ UNCHANGED <<exit_kind, msg>>
    /\ UNCHANGED <<params_vars, catalog_response, headers, ip, destroy_id, catalog_id,
                   template_json, state, build_status, build_explanation,
                   vms, result>>

\* run_module: one pass of the while True loop: get_vm_build_status, the
\* if/elif chain, and time.sleep(15); timer += 15.
PollBuildStatus ==
    /\ pc = "poll"
    /\ \E response \in BuildStatusResponses :
         /\ calls' = Append(calls, Call("build_status", request_id,
                                        response.kind,
                                        [ at |-> timer,
                                          stateName |-> response.stateName,
                                          requestCompletion |->
                                              response.requestCompletion ]))
         /\ IF response.kind = "error"
            THEN /\ fail_json(MsgBuildStatus)
                 /\ UNCHANGED <<build_status, build_explanation, timer>>
            ELSE LET decision ==
                       PollDecision(timer, wait_timeout, response.stateName)
                 IN
                 /\ build_status' = response.stateName
                 /\ build_explanation' = Explanation(response.requestCompletion)
                 /\ CASE decision = "timeout" ->
                           /\ fail_json(MsgTimeout(wait_timeout))
                           /\ UNCHANGED timer
                      [] decision = "failed" ->
                           /\ fail_json(MsgBuildFailed(build_explanation'))
                           /\ UNCHANGED timer
                      [] decision = "break" ->
                           /\ pc' = "get_vm_again"
                           /\ UNCHANGED <<timer, exit_kind, msg>>
                      [] OTHER ->
                           /\ timer' = timer + PollInterval
                           /\ UNCHANGED <<pc, exit_kind, msg>>
    /\ UNCHANGED <<params_vars, catalog_response, headers, ip, request_id, destroy_id,
                   catalog_id, template_json, state, vms, result>>

\* VRAHelper.get_vm_state and the end of run_module: the result is filled
\* in and module.exit_json(**result) ends the run.
GetVmState ==
    /\ \/ pc = "get_vm_state"
       \/ pc = "decide" /\ ~check_mode /\ ~IpIsNone(ip)
    /\ IF request_id = Unset \/ destroy_id = Unset
       THEN \* AttributeError, caught by the except clause
            /\ fail_json(MsgVmState)
            /\ UNCHANGED <<state, result, calls>>
       ELSE /\ \E response \in StateResponses :
                 /\ calls' = Append(calls, Call("vm_state", destroy_id,
                                                response, Unset))
                 /\ IF response \in {"error", "absent"}
                    THEN /\ fail_json(MsgVmState)
                         /\ UNCHANGED <<state, result>>
                    ELSE /\ state' = response
                         /\ result' = [ result EXCEPT
                                          !.state = response,
                                          !.destroy_id = destroy_id,
                                          !.ip = ip,
                                          !.hostname = params.hostname ]
                         /\ exit_json
    /\ UNCHANGED <<params_vars, catalog_response, headers, ip, request_id, destroy_id,
                   catalog_id, template_json, build_status,
                   build_explanation, vms, timer>>

Next ==
    \/ GetAuth
    \/ GetVm
    \/ CheckModeExit
    \/ GetCatalogId
    \/ GetTemplateJson
    \/ CustomizeTemplate
    \/ CreateVmFromTemplate
    \/ PollBuildStatus
    \/ GetVmState

Spec == Init /\ [][Next]_vars

-----------------------------------------------------------------------------
(* Reading the log of REST calls *)

Ops == [i \in DOMAIN calls |-> calls[i].op]

\* The calls that create a VM.
CreationOps == {"catalog", "template", "create"}

CreationCallIssued == \E i \in DOMAIN calls : calls[i].op \in CreationOps

\* The positions of the inventory listings, and the last of them.
Listings == {i \in DOMAIN calls : calls[i].op = "list_vms"}

LastListing == CHOOSE i \in Listings : \A j \in Listings : j <= i

FirstListing == CHOOSE i \in Listings : \A j \in Listings : i <= j

\* The status polls, and the number of them before position i.
Polls == {i \in DOMAIN calls : calls[i].op = "build_status"}

PollsBefore(i) == Cardinality({j \in Polls : j < i})

\* The run left the poll loop through its break.
LoopSucceeded ==
    \/ pc = "get_vm_again"
    \/ \E i \in Polls, j \in Listings : i < j

TimedOut == exit_kind = "fail_json" /\ msg = MsgTimeout(wait_timeout)

Failed == exit_kind \in {"fail_json", "traceback"}

-----------------------------------------------------------------------------
(* The claims *)

\* C1: the k-th poll is made at timer 15 * (k - 1); the poll loop ends in
\* success if and only if some poll answered Successful at a timer value
\* strictly below wait_timeout; and a poll that answers InProgress at a
\* timer value that has reached wait_timeout ends the run with the timeout
\* failure 'Failed to create VM in N seconds'.
C1_PollOutcome ==
    /\ \A i \in Polls : calls[i].detail.at = PollInterval * PollsBefore(i)
    /\ LoopSucceeded <=>
         \E i \in Polls : /\ calls[i].got = "json"
                          /\ calls[i].detail.stateName = "Successful"
                          /\ calls[i].detail.at < wait_timeout
    /\ (\E i \in Polls : /\ calls[i].got = "json"
                         /\ calls[i].detail.stateName = "InProgress"
                         /\ calls[i].detail.at >= wait_timeout)
         => TimedOut

\* C1 witness: the loop broke at its second poll, after one unsuccessful one.
C1_Witness ==
    /\ pc = "get_vm_again"
    /\ timer = PollInterval
    /\ build_status = "Successful"

\* C2: if the first inventory lookup finds exactly one VM named hostname,
\* the run issues no catalog lookup, no template fetch and no creation POST,
\* whatever that VM's resource data holds.
C2_NoCreationWhenPresent ==
    (/\ Listings # {}
     /\ calls[FirstListing].got = "content"
     /\ Cardinality(calls[FirstListing].detail) = 1)
        => ~CreationCallIssued

\* C3: in check mode, when the inventory lookup finds no VM named hostname,
\* the only REST calls are the token request and the inventory listing, the
\* run goes on to exit, and it exits successfully with changed = true.
C3_CheckModeDryRun ==
    (/\ check_mode
     /\ Listings # {}
     /\ calls[FirstListing].got = "content"
     /\ calls[FirstListing].detail = {})
        => /\ Ops = <<"token", "list_vms">>
           /\ pc \in {"decide", "exit"}
           /\ pc = "decide" => ENABLED CheckModeExit
           /\ pc = "exit" => exit_kind = "exit_json" /\ result.changed

\* C3 witness: a check-mode run that found no VM has exited with changed.
C3_Witness ==
    /\ check_mode
    /\ exit_kind = "exit_json"
    /\ result.changed
    /\ Ops = <<"token", "list_vms">>
    /\ calls[2].detail = {}

\* C4: an inventory listing, the first or the one after a successful build,
\* that holds two or more VMs named hostname is the last REST call of the
\* run, and the run ends with the duplicate-hostname failure.
C4_DuplicateFailsFast ==
    \A i \in Listings :
        (calls[i].got = "content" /\ Cardinality(calls[i].detail) >= 2)
            => /\ i = Len(calls)
               /\ exit_kind = "fail_json"
               /\ msg = MsgDuplicate

\* C4 witness: the listing after a successful build held two VMs.
C4_Witness ==
    /\ Cardinality(Listings) = 2
    /\ Cardinality(calls[LastListing].detail) = 2
    /\ exit_kind = "fail_json"
    /\ msg = MsgDuplicate

\* The disk lists of the fetched template and of the customized one.
FetchedDisks ==
    LET i == CHOOSE j \in DOMAIN calls : calls[j].op = "template"
    IN  calls[i].detail.data[params.blueprint_instance_id].data.disks

CustomizedDisks ==
    template_json.doc.data[params.blueprint_instance_id].data.disks

\* The k-th appended disk descriptor d is the one the k-th extra disk gets.
IsExtraDisk(d, k) ==
    /\ d.label = "Hard disk " \o ToString(k + 1)
    /\ d.volumeId = k
    /\ d.id = FetchedDisks[1].id + k
    /\ d.capacity = extra_disks[k].size_gb
    /\ d.initial_location = extra_disks[k].mount_point

\* C5 as stated: after customize_template, for every fetched template, the
\* disk list has length N + 1, its first entry is the fetched base disk and
\* entry k (k in 1..N, counting from 0) is the k-th extra disk.
C5_LengthNPlusOne ==
    template_json.kind = "dict"
        => /\ Len(CustomizedDisks) = Len(extra_disks) + 1
           /\ CustomizedDisks[1] = FetchedDisks[1]
           /\ \A k \in 1..Len(extra_disks) :
                 IsExtraDisk(CustomizedDisks[k + 1], k)

\* C5 amended: after customize_template, for a fetched template with M
\* disks, the disk list has length M + N, its first M entries are the
\* fetched ones unchanged, and the k-th entry after them (k in 1..N) has
\* label 'Hard disk {k+1}', volumeId k, id = base disk id + k and the
\* capacity and mount point of the k-th extra disk; with M = 1 the list has
\* length N + 1.
C5_DisksAppended ==
    template_json.kind = "dict"
        => /\ Len(CustomizedDisks) = Len(FetchedDisks) + Len(extra_disks)
           /\ \A j \in 1..Len(FetchedDisks) :
                 CustomizedDisks[j] = FetchedDisks[j]
           /\ \A k \in 1..Len(extra_disks) :
                 IsExtraDisk(CustomizedDisks[Len(FetchedDisks) + k], k)
           /\ Len(FetchedDisks) = 1
                 => Len(CustomizedDisks) = Len(extra_disks) + 1

\* C5 witness: the one-disk template customized with the disks 60/"/mnt1"
\* and 80/"/mnt2" holds three disks, 'Hard disk 2' of 60 and 'Hard disk 3'
\* of 80.
C5_Witness ==
    /\ template_json.kind = "dict"
    /\ Len(FetchedDisks) = 1
    /\ Len(CustomizedDisks) = 3
    /\ CustomizedDisks[2].label = "Hard disk 2"
    /\ CustomizedDisks[2].capacity = 60
    /\ CustomizedDisks[3].label = "Hard disk 3"
    /\ CustomizedDisks[3].capacity = 80

\* The explanation the server gave with the status of poll i.
CompletionText(i) ==
    IF calls[i].detail.requestCompletion = NoneV
    THEN ""
    ELSE calls[i].detail.requestCompletion[1]

PolledFailed(i) ==
    /\ calls[i].got = "json"
    /\ calls[i].detail.stateName = "Failed"

\* C6 as stated: a poll that observes Failed, at any timer value, is the
\* last REST call and ends the run with the failure that carries the
\* server's completion details (empty when there are none).
C6_FailedAtAnyTimer ==
    \A i \in Polls :
        PolledFailed(i)
            => /\ i = Len(calls)
               /\ exit_kind = "fail_json"
               /\ msg = MsgBuildFailed(CompletionText(i))

\* C6 amended: a poll that observes Failed is the last REST call and ends
\* the run in a failure: the one that carries the server's completion
\* details when the timer is below wait_timeout, the timeout failure when
\* the timer has reached wait_timeout.
C6_FailedBeforeTimeout ==
    \A i \in Polls :
        PolledFailed(i)
            => /\ i = Len(calls)
               /\ exit_kind = "fail_json"
               /\ msg = IF calls[i].detail.at < wait_timeout
                        THEN MsgBuildFailed(CompletionText(i))
                        ELSE MsgTimeout(wait_timeout)

\* C6 witness: the second poll observed Failed with completion details.
C6_Witness ==
    /\ exit_kind = "fail_json"
    /\ timer = PollInterval
    /\ timer < wait_timeout
    /\ build_status = "Failed"
    /\ msg = MsgBuildFailed(CompletionDetails)

\* C7: when the lookup finds one VM whose infrastructure resource has no
\* ip_address entry, get_vm does not fail: it records the request id and
\* the destroy id, leaves the IP empty, and the run continues.
C7_MissingIpTolerated ==
    (/\ calls # <<>>
     /\ calls[Len(calls)].op = "request_resources"
     /\ calls[Len(calls)].got = "resource"
     /\ calls[Len(calls)].detail = "absent")
        => /\ exit_kind = "running"
           /\ request_id = calls[Len(calls)].arg
           /\ destroy_id = DestroyIdOf(calls[Len(calls)].arg[2])
           /\ ip = NoneV

\* The number of calls of one endpoint.
Count(op) == Cardinality({i \in DOMAIN calls : calls[i].op = op})

\* The answer to call i is one the helper fails on.
CallFailed(i) ==
    LET c == calls[i] IN
    CASE c.op = "token" -> c.got = "error"
      [] c.op = "list_vms" -> c.got = "error" \/ Cardinality(c.detail) > 1
      [] c.op = "request_resources" -> c.got # "resource" \/ c.detail = "absent"
      [] c.op = "catalog" -> c.got = "error"
      [] c.op = "template" -> c.got = "error"
      [] c.op = "create" -> c.got = "error"
      [] c.op = "build_status" ->
            \/ c.got = "error"
            \/ c.detail.at >= wait_timeout
            \/ c.detail.stateName = "Failed"
      [] c.op = "vm_state" -> c.got \in {"error", "absent"}

\* C8: every failure is terminal and nothing is retried: a failed run takes
\* no further step (so issues no further REST call and never turns into a
\* success), a call whose answer the helper fails on is the last call of
\* the run and leaves it failed, a template answer customization fails on
\* is the last call too, no endpoint is called again after its first use
\* except by the second lookup and the poll loop, and the creation POST is
\* submitted at most once.
C8_FailureIsTerminal ==
    /\ Failed => pc = "exit" /\ ~ENABLED Next
    /\ exit_kind = "exit_json" => msg = ""
    /\ \A i \in DOMAIN calls : CallFailed(i) => i = Len(calls) /\ Failed
    /\ \A i \in DOMAIN calls :
          (calls[i].op = "template" /\ calls[i].got = "garbage")
              => /\ i = Len(calls)
                 /\ pc = "customize_template" \/ exit_kind = "traceback"
    /\ \A op \in {"token", "catalog", "template", "create", "vm_state"} :
          Count(op) <= 1
    /\ Count("list_vms") <= 2
    /\ Count("request_resources") <= Count("list_vms")

\* C8 witness: a status poll raised after the creation POST was submitted.
C8_Witness ==
    /\ Count("create") = 1
    /\ exit_kind = "fail_json"
    /\ msg = MsgBuildStatus
    /\ calls[Len(calls)].got = "error"

\* C9: when a run outside check mode exits successfully, its last inventory
\* listing held exactly one VM named hostname, and the destroy_id, ip and
\* state it reports were read from that VM after that listing; so a run
\* whose second listing holds no VM does not exit successfully.
C9_SuccessFromLastLookup ==
    (exit_kind = "exit_json" /\ ~check_mode)
        => LET l == LastListing
               n == Len(calls)
           IN  /\ calls[l].got = "content"
               /\ Cardinality(calls[l].detail) = 1
               /\ LET v == CHOOSE x \in calls[l].detail : TRUE IN
                  /\ n = l + 2
                  /\ calls[l + 1].op = "request_resources"
                  /\ calls[l + 1].arg = RequestIdOf(v)
                  /\ calls[n].op = "vm_state"
                  /\ calls[n].arg = DestroyIdOf(v)
                  /\ result.destroy_id = DestroyIdOf(v)
                  /\ result.ip = IF calls[l + 1].detail = "null"
                                 THEN NoneV ELSE IpOf(v)
                  /\ result.state = calls[n].got

\* Call i (i > 1) may follow call i - 1.
Follows(i) ==
    LET prev == calls[i - 1]
        cur == calls[i].op
    IN  CASE cur = "token" -> FALSE
          [] cur = "list_vms" ->
                \/ i = 2 /\ prev.op = "token"
                \/ prev.op = "build_status" /\ Count("create") = 1
          [] cur = "request_resources" -> prev.op = "list_vms"
          [] cur = "catalog" ->
                /\ prev.op \in {"list_vms", "request_resources"}
                /\ Cardinality({j \in Listings : j < i}) = 1
                /\ ~check_mode
                /\ calls[FirstListing].detail = {}
          [] cur = "template" -> prev.op = "catalog"
          [] cur = "create" -> prev.op = "template"
          [] cur = "build_status" ->
                \/ prev.op = "create" /\ prev.got = "ok"
                \/ prev.op = "build_status"
          [] cur = "vm_state" ->
                /\ prev.op \in {"list_vms", "request_resources"}
                /\ i > LastListing
                /\ i = Len(calls)

\* C10: the REST calls of a run occur in the order token request, inventory
\* lookup, then (only if the VM is absent and check mode is off) catalog
\* lookup, template fetch, one creation POST, one or more status polls and
\* a second inventory lookup, then the state lookup; no poll precedes the
\* answer of the creation POST and no state lookup precedes the last
\* inventory lookup.
C10_CallOrder ==
    /\ calls # <<>> => calls[1].op = "token"
    /\ \A i \in 2..Len(calls) : Follows(i)
    /\ Count("create") <= 1
    /\ Count("list_vms") = 2 => Count("build_status") >= 1

\* The positions of the catalog answer whose item carries the blueprint name.
NamedItems ==
    {n \in DOMAIN catalog_response.content :
        catalog_response.content[n].name = params.blueprint_name}

\* get_catalog_id has just been left with this answer to its request.
CatalogAnswered ==
    /\ calls # <<>>
    /\ calls[Len(calls)].op = "catalog"
    /\ catalog_response # NoResponse

\* C11: get_catalog_id selects the catalog id by exact match of the
\* blueprint name: when one or more items of the answer carry the name, the
\* id of the last of them is the catalog id and the run goes on to the
\* template fetch; when none carries it (or the request raises) the run ends
\* with the catalog-lookup failure; and a run that ended with that failure
\* has issued no template fetch and no creation POST.
C11_CatalogSelection ==
    /\ CatalogAnswered =>
          IF catalog_response.kind = "content" /\ NamedItems # {}
          THEN /\ pc = "get_template_json"
               /\ exit_kind = "running"
               /\ LET last == CHOOSE n \in NamedItems :
                                 \A m \in NamedItems : m <= n
                  IN  catalog_id = catalog_response.content[last].id
          ELSE /\ exit_kind = "fail_json"
               /\ msg = MsgCatalog
               /\ catalog_id = "unset"
    /\ msg = MsgCatalog
          => /\ CatalogAnswered
             /\ Count("template") = 0
             /\ Count("create") = 0
             /\ ~ENABLED Next

\* C11 witness: two items carry the blueprint name and the id of the second
\* one was selected.
C11_Witness ==
    /\ CatalogAnswered
    /\ catalog_response.kind = "content"
    /\ Cardinality(NamedItems) = 2
    /\ catalog_response.content[1].id = "cat-1"
    /\ catalog_response.content[2].id = "cat-2"
    /\ catalog_id = "cat-2"

\* The first inventory lookup answered, and its answer leaves the helper
\* without an address: no VM named hostname, or one whose ip_address is null.
InventoryLeavesNoIp ==
    /\ Listings # {}
    /\ calls[FirstListing].got = "content"
    /\ \/ calls[FirstListing].detail = {}
       \/ /\ Cardinality(calls[FirstListing].detail) = 1
          /\ Len(calls) > FirstListing
          /\ calls[FirstListing + 1].op = "request_resources"
          /\ calls[FirstListing + 1].got = "resource"
          /\ calls[FirstListing + 1].detail = "null"

\* A run outside check mode has taken one of the two branches after the
\* first lookup.
BranchTaken ==
    /\ ~check_mode
    /\ \/ Count("catalog") = 1
       \/ Count("vm_state") = 1
       \/ msg = MsgVmState

\* C12: for the same answers of the inventory, check mode and a run outside
\* check mode decide alike: a check-mode run exits with changed = true
\* exactly when the answers leave the helper without an address, and a run
\* outside check mode sets changed = true and starts the creation (catalog
\* lookup, then template fetch and creation POST) exactly then.
C12_CheckModeAgrees ==
    /\ (check_mode /\ exit_kind = "exit_json")
          => (result.changed <=> InventoryLeavesNoIp)
    /\ check_mode => ~CreationCallIssued /\ Count("vm_state") = 0
    /\ BranchTaken
          => /\ result.changed <=> InventoryLeavesNoIp
             /\ Count("catalog") = 1 <=> InventoryLeavesNoIp
    /\ Count("create") = 1 => ~check_mode /\ InventoryLeavesNoIp

\* C12 witness: a check-mode run exited with changed = false for a VM that
\* has an address, the answers on which a run outside check mode goes to
\* the state lookup.
C12_Witness ==
    /\ check_mode
    /\ exit_kind = "exit_json"
    /\ ~result.changed
    /\ Cardinality(calls[FirstListing].detail) = 1
    /\ calls[FirstListing + 1].detail = "value"

\* The fetched template document, and the body of the creation POST.
FetchedDoc ==
    LET i == CHOOSE j \in DOMAIN calls : calls[j].op = "template"
    IN  calls[i].detail

PostedBody ==
    LET i == CHOOSE j \in DOMAIN calls : calls[j].op = "create"
    IN  calls[i].detail

\* The server reparses a scalar of the body: a number from its decimal
\* text, a string as it is.
ScalarNumbers == {params.cpu, params.memory, 1, 4, 1024, 8192}

Reparsed(token) ==
    IF token.json = "number"
    THEN CHOOSE n \in ScalarNumbers : ToString(n) = token.text
    ELSE token.text

\* C13: once customize_template has run on a fetched template that holds
\* the blueprint instance id, cpu, memory, Hostname and
\* VirtualMachine.Network0.Name hold the caller's values whatever the
\* template held, and every other scalar of the template (the description,
\* the data of the other instances) is as fetched; and the body of the
\* creation POST, serialized and reparsed, carries those four values and
\* the fetched description.
C13_ScalarsRoundTrip ==
    /\ template_json.kind = "dict"
          => LET meta == template_json.doc.data[params.blueprint_instance_id].data
                 fetched == FetchedDoc.data[params.blueprint_instance_id].data
             IN  /\ meta.cpu = params.cpu
                 /\ meta.memory = params.memory
                 /\ meta.Hostname = params.hostname
                 /\ meta.Network0Name = params.network_adapter
                 /\ meta.description = fetched.description
                 /\ DOMAIN template_json.doc.data = DOMAIN FetchedDoc.data
                 /\ \A k \in DOMAIN FetchedDoc.data \ {params.blueprint_instance_id} :
                       template_json.doc.data[k] = FetchedDoc.data[k]
    /\ Count("create") = 1
          => LET body == PostedBody.data[params.blueprint_instance_id].data
                 fetched == FetchedDoc.data[params.blueprint_instance_id].data
             IN  /\ Reparsed(body.cpu) = params.cpu
                 /\ Reparsed(body.memory) = params.memory
                 /\ Reparsed(body.Hostname) = params.hostname
                 /\ Reparsed(body.Network0Name) = params.network_adapter
                 /\ Reparsed(body.description) = fetched.description
                 /\ Len(body.disks) = Len(CustomizedDisks)

\* C13 witness: a template that held cpu 4 and hostname 'Old-VM' was
\* customized and posted, and the reparsed body holds cpu 2 and 'Test-VM'.
C13_Witness ==
    /\ Count("create") = 1
    /\ FetchedDoc.data[params.blueprint_instance_id].data.cpu = 4
    /\ FetchedDoc.data[params.blueprint_instance_id].data.Hostname = "Old-VM"
    /\ Reparsed(PostedBody.data[params.blueprint_instance_id].data.cpu) = 2
    /\ Reparsed(PostedBody.data[params.blueprint_instance_id].data.Hostname)
          = "Test-VM"

\* The creation POST was accepted, so the poll loop was entered.
LoopEntered == \E i \in DOMAIN calls : calls[i].op = "create" /\ calls[i].got = "ok"

\* ceil(T / 15)
CeilOfTimeout == (wait_timeout + PollInterval - 1) \div PollInterval

\* C14: for every wait_timeout and every sequence of statuses, SUBMITTED
\* among them, the poll loop terminates: the timer and the timer value of
\* every status request are multiples of 15; a loop that is still running
\* has made timer / 15 requests, all of them below wait_timeout, and its
\* next request is enabled; a loop that was left made at least one request;
\* there are never more than ceil(wait_timeout / 15) + 1 requests; and a
\* request made when the timer has reached or passed wait_timeout is the
\* last REST call of the run, which has failed.
C14_PollLoopBounded ==
    /\ timer % PollInterval = 0
    /\ \A i \in Polls : calls[i].detail.at % PollInterval = 0
    /\ Count("build_status") <= CeilOfTimeout + 1
    /\ pc = "poll"
          => /\ Count("build_status") = timer \div PollInterval
             /\ \A i \in Polls : calls[i].detail.at < wait_timeout
             /\ ENABLED PollBuildStatus
    /\ (LoopEntered /\ pc # "poll") => Count("build_status") >= 1
    /\ \A i \in Polls :
          calls[i].detail.at >= wait_timeout
             => /\ i = Len(calls)
                /\ pc = "exit"
                /\ exit_kind = "fail_json"

\* C14 witness: with wait_timeout 16 the loop made ceil(16 / 15) + 1 = 3
\* requests, one of them answered SUBMITTED, and ended with the timeout.
C14_Witness ==
    /\ wait_timeout = 16
    /\ Count("build_status") = 3
    /\ TimedOut
    /\ \E i \in Polls : calls[i].detail.stateName = "SUBMITTED"
    /\ timer = 2 * PollInterval

\* C15: after customize_template, whatever the number of disks of the
\* fetched template and whatever the extra-disk list, the disk descriptors
\* of the customized template have pairwise distinct ids and pairwise
\* distinct labels.
C15_DistinctIdsAndLabels ==
    template_json.kind = "dict"
       => \A i, j \in DOMAIN CustomizedDisks :
             i # j => /\ CustomizedDisks[i].id # CustomizedDisks[j].id
                      /\ CustomizedDisks[i].label # CustomizedDisks[j].label

====
